---- MODULE Spec2Model ----
(***************************************************************************)
(* Model of the limit-order matching engine of matcher-rs                  *)
(* (src/src/order_book.rs, src/src/limit.rs, src/src/level.rs).            *)
(*                                                                         *)
(* The engine is single threaded: one step of the model is one top-level   *)
(* call of OrderBook::process_command, run to completion, including the    *)
(* nested process_command calls of Modify and the recursive place_order    *)
(* calls of matching.  Timestamps (created_at, updated_at, timestamp       *)
(* fields) come from an opaque clock, are never read by the engine, and    *)
(* are left out of the records.                                            *)
(***************************************************************************)
EXTENDS Integers, Sequences, FiniteSets, TLC

(* ------------------------------ bounds -------------------------------- *)
\* a top-level command is accepted while OrderBook.commands holds fewer
\* entries than this
MaxCmds == 4
\* prices of commands are drawn from 1..MaxPrice
MaxPrice == 2
\* quantities of commands are drawn from 0..MaxQty
MaxQty == 2

Prices == 1..MaxPrice
Qtys == 0..MaxQty
Sides == {"Buy", "Sell"}
OrderTypes == {"GoodTilCancel", "FillAndKill"}

(* ------------------------------ state --------------------------------- *)
VARIABLES
    bids,      \* OrderBook.bids: Vec<Level>, in vector order
    asks,      \* OrderBook.asks: Vec<Level>, in vector order
    commands,  \* OrderBook.commands: every command process_command was called with
    events,    \* OrderBook.events: the append-only event log
    next_id,   \* the id the next Order::new hands out
    ledger     \* history variable: ledger[id] = initial quantity of order id and
               \* the quantity the match steps have executed against it so far

vars == <<bids, asks, commands, events, next_id, ledger>>

\* The engine state as one value, threaded through the operators below.
Book == [bids |-> bids, asks |-> asks, commands |-> commands,
         events |-> events, next_id |-> next_id, ledger |-> ledger]

(* --------------------------- sequence helpers -------------------------- *)
\* Iterator::position: the least index of a set of matching indices, 0 for None.
FirstPos(S) == IF S = {} THEN 0 ELSE CHOOSE i \in S : \A j \in S : i <= j

\* Vec::remove / VecDeque::remove: the sequence without its i-th element.
RemoveAt(s, i) == SubSeq(s, 1, i - 1) \o SubSeq(s, i + 1, Len(s))

\* queue.iter().position(|lev| lev.price == price)
LevelPos(queue, price) ==
    FirstPos({i \in 1..Len(queue) : queue[i].price = price})

(* ------------------------------- Order --------------------------------- *)
\* Order::new: a fresh id, remaining quantity = initial quantity = qty.
OrderNew(id, order_type, side, price, qty) ==
    [id |-> id, order_type |-> order_type, side |-> side, price |-> price,
     initial_qty |-> qty, remaining_qty |-> qty]

(* ------------------------------- Limit --------------------------------- *)
\* Level::new
LevelNew(price) == [price |-> price, orders |-> <<>>]

\* Limit::find_by_id: position of the first order with that id, 0 for None.
find_by_id(lev, id) ==
    FirstPos({i \in 1..Len(lev.orders) : lev.orders[i].id = id})

\* Mutant of remove_order_by_id: pops the front order instead of the found one.
remove_order_by_id_front(lev, id) ==
    LET order_pos == find_by_id(lev, id) IN
    IF order_pos # 0
    THEN [lev |-> [lev EXCEPT !.orders = RemoveAt(lev.orders, 1)],
          removed |-> TRUE]
    ELSE [lev |-> lev, removed |-> FALSE]

\* Limit::remove_order_by_id: the level afterwards and the returned bool.
remove_order_by_id(lev, id) ==
    LET order_pos == find_by_id(lev, id) IN
    IF order_pos # 0
    THEN [lev |-> [lev EXCEPT !.orders = RemoveAt(lev.orders, order_pos)],
          removed |-> TRUE]
    ELSE [lev |-> lev, removed |-> FALSE]

(* ----------------------------- OrderBook ------------------------------- *)
\* OrderBook::new
OrderBookNew ==
    [bids |-> <<>>, asks |-> <<>>, commands |-> <<>>, events |-> <<>>,
     next_id |-> 1, ledger |-> <<>>]

\* The side's vector: `match side { Buy => &mut self.bids, Sell => &mut self.asks }`
Queue(b, side) == IF side = "Buy" THEN b.bids ELSE b.asks
SetQueue(b, side, q) ==
    IF side = "Buy" THEN [b EXCEPT !.bids = q] ELSE [b EXCEPT !.asks = q]
Opposite(side) == IF side = "Buy" THEN "Sell" ELSE "Buy"

\* The comparator of the two sorts on prices: ascending or descending.
Before(x, y, descending) == IF descending THEN x.price > y.price ELSE x.price < y.price

\* Stable insertion of a level into a sorted vector.
RECURSIVE InsertSorted(_, _, _)
InsertSorted(sorted, lev, descending) ==
    IF sorted = <<>> THEN <<lev>>
    ELSE IF Before(lev, Head(sorted), descending) THEN <<lev>> \o sorted
    ELSE <<Head(sorted)>> \o InsertSorted(Tail(sorted), lev, descending)

\* Stable sort of a vector of levels by price.
RECURSIVE SortBy(_, _)
SortBy(levels, descending) ==
    IF levels = <<>> THEN <<>>
    ELSE InsertSorted(SortBy(SubSeq(levels, 1, Len(levels) - 1), descending),
                      levels[Len(levels)], descending)

\* Mutant of SortAsks: sorts the asks descending, like the bids.
SortAsks_descending(levels) == SortBy(levels, TRUE)

\* self.asks.sort(): ascending by the derived Ord of Level, whose first key is
\* the price (a side never holds two levels of one price, see place_order).
SortAsks(levels) == SortBy(levels, FALSE)

\* self.bids.sort_by(|a, b| b.price.partial_cmp(&a.price).unwrap()): descending.
SortBids(levels) == SortBy(levels, TRUE)

\* History only: the quantity a match step executes against order id.
Execute(b, id, qty) ==
    [b EXCEPT !.ledger[id].executed = @ + qty]

\* OrderBook::find_order_to_match: sorts the opposing side in place and clones
\* the front order of its first level; m is <<>> for None, <<order>> for Some.
find_order_to_match(b, order) ==
    LET sorted == IF order.side = "Buy"
                  THEN [b EXCEPT !.asks = SortAsks(b.asks)]
                  ELSE [b EXCEPT !.bids = SortBids(b.bids)]
        queue_to_match == IF order.side = "Buy" THEN sorted.asks ELSE sorted.bids
    IN  [book |-> sorted,
         m |-> IF queue_to_match # <<>>
               THEN (IF queue_to_match[1].orders # <<>>
                     THEN <<queue_to_match[1].orders[1]>> ELSE <<>>)
               ELSE <<>>]

\* OrderBook::try_match_order, Ordering::Greater arm.
MatchGreater(b, order, match_order) ==
    LET opp == Opposite(order.side)
        lev_vec == Queue(b, opp)
        lev_pos == LevelPos(lev_vec, match_order.price)
        lev == lev_vec[lev_pos]
        opp_ord == Head(lev.orders)
        popped == [lev_vec EXCEPT ![lev_pos].orders = Tail(lev.orders)]
        after == IF popped[lev_pos].orders = <<>>
                 THEN RemoveAt(popped, lev_pos) ELSE popped
        b1 == SetQueue(b, opp, after)
        b2 == [b1 EXCEPT !.events = @ \o
                 << [kind |-> "PartiallyFilled", id |-> order.id,
                     price |-> order.price, qty |-> opp_ord.remaining_qty],
                    [kind |-> "Filled", id |-> opp_ord.id, price |-> order.price] >>]
    IN  IF lev_pos # 0
        THEN [book |-> Execute(Execute(b2, order.id, opp_ord.remaining_qty),
                               opp_ord.id, opp_ord.remaining_qty),
              status |-> "Pending"]
        ELSE [book |-> b, status |-> "Pending"]

\* OrderBook::try_match_order, Ordering::Less arm.  opp_ord is an owned copy of
\* the front order (`.to_owned()`), fill() acts on that copy and its result is
\* dropped (`let _ =`): the level keeps the order as it was.
MatchLess(b, order, match_order) ==
    LET opp == Opposite(order.side)
        lev_vec == Queue(b, opp)
        lev_pos == LevelPos(lev_vec, match_order.price)
        lev == lev_vec[lev_pos]
        opp_ord == Head(lev.orders)
        b2 == [b EXCEPT !.events = @ \o
                 << [kind |-> "PartiallyFilled", id |-> opp_ord.id,
                     price |-> order.price, qty |-> order.remaining_qty],
                    [kind |-> "Filled", id |-> order.id, price |-> order.price] >>]
    IN  IF lev_pos # 0
        THEN [book |-> Execute(Execute(b2, opp_ord.id, order.remaining_qty),
                               order.id, order.remaining_qty),
              status |-> "Done"]
        ELSE [book |-> b, status |-> "Done"]

\* Mutant of MatchEqual: reports both orders Filled but leaves the matched
\* order at the front of its level (no pop_front).
MatchEqual_keep_front(b, order, match_order) ==
    LET opp == Opposite(order.side)
        lev_vec == Queue(b, opp)
        lev_pos == LevelPos(lev_vec, match_order.price)
        opp_ord == Head(lev_vec[lev_pos].orders)
        b2 == [b EXCEPT !.events = @ \o
                 << [kind |-> "Filled", id |-> opp_ord.id, price |-> order.price],
                    [kind |-> "Filled", id |-> order.id, price |-> order.price] >>]
    IN  IF lev_pos # 0
        THEN [book |-> Execute(Execute(b2, opp_ord.id, opp_ord.remaining_qty),
                               order.id, order.remaining_qty),
              status |-> "Done"]
        ELSE [book |-> b, status |-> "Done"]

\* OrderBook::try_match_order, the `_` (Ordering::Equal) arm.
MatchEqual(b, order, match_order) ==
    LET opp == Opposite(order.side)
        lev_vec == Queue(b, opp)
        lev_pos == LevelPos(lev_vec, match_order.price)
        lev == lev_vec[lev_pos]
        opp_ord == Head(lev.orders)
        popped == [lev_vec EXCEPT ![lev_pos].orders = Tail(lev.orders)]
        after == IF popped[lev_pos].orders = <<>>
                 THEN RemoveAt(popped, lev_pos) ELSE popped
        b1 == SetQueue(b, opp, after)
        b2 == [b1 EXCEPT !.events = @ \o
                 << [kind |-> "Filled", id |-> opp_ord.id, price |-> order.price],
                    [kind |-> "Filled", id |-> order.id, price |-> order.price] >>]
    IN  IF lev_pos # 0
        THEN [book |-> Execute(Execute(b2, opp_ord.id, opp_ord.remaining_qty),
                               order.id, order.remaining_qty),
              status |-> "Done"]
        ELSE [book |-> b, status |-> "Done"]

\* Mutant of try_match_order: the Greater arm is taken for `>=`.
try_match_order_ge(b, order, match_order) ==
    IF order.remaining_qty >= match_order.remaining_qty
    THEN MatchGreater(b, order, match_order)
    ELSE MatchLess(b, order, match_order)

\* OrderBook::try_match_order
try_match_order(b, order, match_order) ==
    IF order.remaining_qty > match_order.remaining_qty
    THEN MatchGreater(b, order, match_order)
    ELSE IF order.remaining_qty < match_order.remaining_qty
    THEN MatchLess(b, order, match_order)
    ELSE MatchEqual(b, order, match_order)

\* Mutant of RestOrder: always pushes a new level, without looking for one.
RestOrder_new_level(b, order) ==
    SetQueue(b, order.side,
        Append(Queue(b, order.side),
               [LevelNew(order.price) EXCEPT !.orders = <<order>>]))

\* Mutant of RestOrder: push_front on the level instead of push_back.
RestOrder_push_front(b, order) ==
    LET queue == Queue(b, order.side)
        lev_pos == LevelPos(queue, order.price)
    IN  IF lev_pos # 0
        THEN SetQueue(b, order.side,
                 [queue EXCEPT ![lev_pos].orders = <<order>> \o @])
        ELSE SetQueue(b, order.side,
                 Append(queue, [LevelNew(order.price) EXCEPT !.orders = <<order>>]))

\* The else branch of place_order: push_back on the level of order.price of
\* the order's own side, or push a new level holding the order.
RestOrder(b, order) ==
    LET queue == Queue(b, order.side)
        lev_pos == LevelPos(queue, order.price)
    IN  IF lev_pos # 0
        THEN SetQueue(b, order.side,
                 [queue EXCEPT ![lev_pos].orders = Append(@, order)])
        ELSE SetQueue(b, order.side,
                 Append(queue, [LevelNew(order.price) EXCEPT !.orders = <<order>>]))

\* `can_match` of place_order
CanMatch(order, order_try_match) ==
    IF order.side = "Buy"
    THEN order.price >= order_try_match.price
    ELSE order.price <= order_try_match.price

\* OrderBook::place_order
RECURSIVE place_order(_, _)
place_order(b, order) ==
    IF order.initial_qty = 0 THEN b
    ELSE
      LET f == find_order_to_match(b, order) IN
      IF f.m # <<>>
      THEN LET order_try_match == f.m[1] IN
           IF CanMatch(order, order_try_match)
           THEN LET r == try_match_order(f.book, order, order_try_match) IN
                IF r.status = "Done" THEN r.book
                ELSE place_order(r.book,
                       [order EXCEPT !.remaining_qty =
                            order.remaining_qty - order_try_match.remaining_qty])
           ELSE f.book
      ELSE RestOrder(f.book, order)

\* Mutant of remove_order: pushes Canceled whenever the level exists, without
\* testing what remove_order_by_id returned.
remove_order_unchecked(b, id, price, side) ==
    LET queue == Queue(b, side)
        lev_pos == LevelPos(queue, price)
    IN  IF lev_pos # 0
        THEN LET r == remove_order_by_id(queue[lev_pos], id)
                 b1 == SetQueue(b, side, [queue EXCEPT ![lev_pos] = r.lev])
             IN  [b1 EXCEPT !.events = Append(@, [kind |-> "Canceled", id |-> id])]
        ELSE b

\* OrderBook::remove_order
remove_order(b, id, price, side) ==
    LET queue == Queue(b, side)
        lev_pos == LevelPos(queue, price)
    IN  IF lev_pos # 0
        THEN LET r == remove_order_by_id(queue[lev_pos], id)
                 b1 == SetQueue(b, side, [queue EXCEPT ![lev_pos] = r.lev])
             IN  IF r.removed
                 THEN [b1 EXCEPT !.events = Append(@, [kind |-> "Canceled", id |-> id])]
                 ELSE b1
        ELSE b

\* Mutant of ProcessNew: pushes Placed after place_order instead of before it.
ProcessNew_PlacedLast(b, command) ==
    LET order == OrderNew(b.next_id, command.order_type, command.side,
                          command.price, command.qty)
        b1 == [b EXCEPT !.next_id = @ + 1,
                        !.ledger = Append(@, [initial |-> command.qty, executed |-> 0])]
        b2 == place_order(b1, order)
    IN  [b2 EXCEPT !.events = Append(@, [kind |-> "Placed", id |-> order.id,
                                          side |-> order.side,
                                          order_type |-> order.order_type,
                                          price |-> command.price])]

\* process_command, New arm: Order::new, push Placed, place_order.
ProcessNew(b, command) ==
    LET order == OrderNew(b.next_id, command.order_type, command.side,
                          command.price, command.qty)
        b1 == [b EXCEPT !.next_id = @ + 1,
                        !.ledger = Append(@, [initial |-> command.qty, executed |-> 0]),
                        !.events = Append(@, [kind |-> "Placed", id |-> order.id,
                                              side |-> order.side,
                                              order_type |-> order.order_type,
                                              price |-> command.price])]
    IN  place_order(b1, order)

NewCmd(order_type, side, price, qty) ==
    [kind |-> "New", order_type |-> order_type, side |-> side,
     price |-> price, qty |-> qty]
CancelCmd(id, side, price) ==
    [kind |-> "Cancel", id |-> id, side |-> side, price |-> price]
ModifyCmd(id, side, price, qty, order_type) ==
    [kind |-> "Modify", id |-> id, side |-> side, price |-> price,
     qty |-> qty, order_type |-> order_type]

RECURSIVE process_command(_, _)

\* Mutant of ProcessModify: issues the Cancel and the New without first
\* confirming that the id rests at that side and price.
ProcessModify_unchecked(b, command) ==
    LET b1 == process_command(b,
                 CancelCmd(command.id, command.side, command.price))
    IN  process_command(b1,
            NewCmd(command.order_type, command.side, command.price, command.qty))

\* Mutant of ProcessModify: issues the New without the Cancel.
ProcessModify_no_cancel(b, command) ==
    LET queue == Queue(b, command.side)
        lev_pos == LevelPos(queue, command.price)
    IN  IF lev_pos # 0
        THEN LET order_pos == find_by_id(queue[lev_pos], command.id) IN
             IF order_pos # 0
             THEN process_command(b,
                      NewCmd(command.order_type, queue[lev_pos].orders[order_pos].side,
                             command.price, command.qty))
             ELSE b
        ELSE b

\* process_command, Modify arm: when the level of that side and price holds the
\* id, process_command(Cancel) and then process_command(New); b already holds
\* the pushed Modify command.
ProcessModify(b, command) ==
    LET queue == Queue(b, command.side)
        lev_pos == LevelPos(queue, command.price)
    IN  IF lev_pos # 0
        THEN LET order_pos == find_by_id(queue[lev_pos], command.id) IN
             IF order_pos # 0
             THEN LET order == queue[lev_pos].orders[order_pos]
                      b1 == process_command(b,
                               CancelCmd(command.id, command.side, command.price))
                  IN  process_command(b1,
                          NewCmd(command.order_type, order.side,
                                 command.price, command.qty))
             ELSE b
        ELSE b

\* OrderBook::process_command
process_command(b, command) ==
    LET b0 == [b EXCEPT !.commands = Append(@, command)] IN
    IF command.kind = "New" THEN ProcessNew(b0, command)
    ELSE IF command.kind = "Cancel"
    THEN remove_order(b0, command.id, command.price, command.side)
    ELSE ProcessModify(b0, command)

(* ------------------------------ behaviour ------------------------------ *)
Init ==
    /\ bids = OrderBookNew.bids
    /\ asks = OrderBookNew.asks
    /\ commands = OrderBookNew.commands
    /\ events = OrderBookNew.events
    /\ next_id = OrderBookNew.next_id
    /\ ledger = OrderBookNew.ledger

Apply(command) ==
    LET r == process_command(Book, command) IN
    /\ bids' = r.bids
    /\ asks' = r.asks
    /\ commands' = r.commands
    /\ events' = r.events
    /\ next_id' = r.next_id
    /\ ledger' = r.ledger

\* ids a caller can name: those handed out so far
IssuedIds == 1..(next_id - 1)

\* process_command(OrderCommand::New{..})
New ==
    /\ Len(commands) + 1 <= MaxCmds
    /\ \E order_type \in OrderTypes, side \in Sides, price \in Prices, qty \in Qtys :
          Apply(NewCmd(order_type, side, price, qty))

\* process_command(OrderCommand::Cancel{..})
Cancel ==
    /\ Len(commands) + 1 <= MaxCmds
    /\ \E id \in IssuedIds, side \in Sides, price \in Prices :
          Apply(CancelCmd(id, side, price))

\* process_command(OrderCommand::Modify{..}); it pushes up to three commands
\* (itself, the inner Cancel and the inner New).
Modify ==
    /\ Len(commands) + 1 <= MaxCmds
    /\ \E id \in IssuedIds, side \in Sides, price \in Prices,
          qty \in Qtys, order_type \in OrderTypes :
          Apply(ModifyCmd(id, side, price, qty, order_type))

Next == New \/ Cancel \/ Modify

Spec == Init /\ [][Next]_vars


(* ------------------------ vocabulary of the claims --------------------- *)
\* the orders resting in a vector of levels, level by level
RECURSIVE OrdersOf(_)
OrdersOf(queue) ==
    IF queue = <<>> THEN <<>> ELSE Head(queue).orders \o OrdersOf(Tail(queue))

\* the ids resting on either side
RestingIds(bs, as) ==
    {OrdersOf(bs)[i].id : i \in 1..Len(OrdersOf(bs))}
        \cup {OrdersOf(as)[i].id : i \in 1..Len(OrdersOf(as))}

\* the prices at which a vector of levels holds at least one order
RestingPrices(queue) ==
    {queue[i].price : i \in {j \in 1..Len(queue) : queue[j].orders # <<>>}}

\* the orders of all levels of that price, <<>> when there is none
OrdersAt(queue, price) ==
    LET AtPrice(lev) == lev.price = price IN OrdersOf(SelectSeq(queue, AtPrice))

\* a step is one top-level process_command call; its command is the first one
\* it pushes, and Appended are the events it adds to the log
Stepped == Len(commands') > Len(commands)
TopCmd == commands'[Len(commands) + 1]
Appended == SubSeq(events', Len(events) + 1, Len(events'))
BookUnchanged == bids' = bids /\ asks' = asks
OwnSide(side) == IF side = "Buy" THEN bids ELSE asks
OppSide(side) == IF side = "Buy" THEN asks ELSE bids
OwnSideAfter(side) == IF side = "Buy" THEN bids' ELSE asks'
OppSideAfter(side) == IF side = "Buy" THEN asks' ELSE bids'

\* an order of that side and price would cross a resting opposing order
Crosses(side, price) ==
    \E p \in RestingPrices(OppSide(side)) :
        IF side = "Buy" THEN price >= p ELSE price <= p

\* the best price among the opposing resting orders (only used when Crosses)
BestOppPrice(side) ==
    CHOOSE p \in RestingPrices(OppSide(side)) :
        \A q \in RestingPrices(OppSide(side)) :
            IF side = "Buy" THEN p <= q ELSE p >= q

(* -------------------------------- claims ------------------------------- *)

\* C1: whenever both sides hold a resting order, every resting bid price is
\* strictly below every resting ask price (the book is never crossed at rest).
C1_NeverCrossed ==
    \A pb \in RestingPrices(bids), pa \in RestingPrices(asks) : pb < pa

\* C2: a New GoodTilCancel command with qty > 0 that crosses no resting opposing
\* order (opposing side empty, or best opposing price not crossable) rests: the
\* orders at its price on its own side become the former ones followed by it.
C2_NonCrossingRests ==
    [][ (/\ Stepped
         /\ TopCmd.kind = "New"
         /\ TopCmd.order_type = "GoodTilCancel"
         /\ TopCmd.qty > 0
         /\ ~Crosses(TopCmd.side, TopCmd.price))
        => OrdersAt(OwnSideAfter(TopCmd.side), TopCmd.price)
             = Append(OrdersAt(OwnSide(TopCmd.side), TopCmd.price),
                      OrderNew(next_id, TopCmd.order_type, TopCmd.side,
                               TopCmd.price, TopCmd.qty)) ]_vars

\* C3: when a New order crosses and is smaller than the front order of the best
\* opposing level, that order stays at the front of its level with its
\* remaining_qty decreased by the incoming quantity, and the events of the
\* match are PartiallyFilled for the resting order, then Filled for the
\* incoming one.
C3_PartialFillInPlace ==
    [][ (/\ Stepped
         /\ TopCmd.kind = "New"
         /\ TopCmd.qty > 0
         /\ Crosses(TopCmd.side, TopCmd.price)
         /\ TopCmd.qty <
              OrdersAt(OppSide(TopCmd.side), BestOppPrice(TopCmd.side))[1].remaining_qty)
        => LET best == BestOppPrice(TopCmd.side)
               resting == OrdersAt(OppSide(TopCmd.side), best)[1]
               after == OrdersAt(OppSideAfter(TopCmd.side), best)
           IN  /\ after # <<>>
               /\ after[1] = [resting EXCEPT !.remaining_qty = @ - TopCmd.qty]
               /\ Len(Appended) = 3
               /\ Appended[2].kind = "PartiallyFilled"
               /\ Appended[2].id = resting.id
               /\ Appended[3].kind = "Filled"
               /\ Appended[3].id = next_id ]_vars

\* C4: the quantity executed against an order id (its PartiallyFilled
\* quantities plus what its Filled event consumed) never exceeds its
\* initial_qty.
C4_NoOverFill ==
    \A id \in 1..Len(ledger) : ledger[id].executed <= ledger[id].initial

\* C5: a FillAndKill order never rests: no level of either side holds one.
C5_FillAndKillNeverRests ==
    \A i \in 1..Len(OrdersOf(bids) \o OrdersOf(asks)) :
        (OrdersOf(bids) \o OrdersOf(asks))[i].order_type # "FillAndKill"

\* C6: Cancel{id, side, price} appends exactly one Canceled{id} iff an order of
\* that id rested at that price on that side; it is then out of the book and
\* the other orders of the level keep their order and quantities.
C6_CancelIffResting ==
    [][ (Stepped /\ TopCmd.kind = "Cancel")
        => LET before == OrdersAt(OwnSide(TopCmd.side), TopCmd.price)
               found == \E i \in 1..Len(before) : before[i].id = TopCmd.id
               Others(o) == o.id # TopCmd.id
           IN  IF found
               THEN /\ Appended = << [kind |-> "Canceled", id |-> TopCmd.id] >>
                    /\ TopCmd.id \notin RestingIds(bids', asks')
                    /\ OrdersAt(OwnSideAfter(TopCmd.side), TopCmd.price)
                         = SelectSeq(before, Others)
               ELSE \A i \in 1..Len(Appended) : Appended[i].kind # "Canceled" ]_vars

\* a Cancel has just removed an order from a level that still holds others
C6_Witness ==
    /\ commands # <<>>
    /\ events # <<>>
    /\ LET c == commands[Len(commands)] IN
       /\ c.kind = "Cancel"
       /\ events[Len(events)] = [kind |-> "Canceled", id |-> c.id]
       /\ \A i \in 1..(Len(commands) - 1) :
             commands[i].kind = "New"
       /\ OrdersAt(OwnSide(c.side), c.price) # <<>>

\* C7: no side holds a level with an empty order queue.
C7_NoEmptyLevel ==
    /\ \A i \in 1..Len(bids) : bids[i].orders # <<>>
    /\ \A i \in 1..Len(asks) : asks[i].orders # <<>>

\* C8: a Cancel that resolves to no resting order changes neither the event
\* log nor the levels, queues and quantities of either side.
C8_CancelMissIsNoOp ==
    [][ (/\ Stepped
         /\ TopCmd.kind = "Cancel"
         /\ \A i \in 1..Len(OrdersAt(OwnSide(TopCmd.side), TopCmd.price)) :
               OrdersAt(OwnSide(TopCmd.side), TopCmd.price)[i].id # TopCmd.id)
        => (events' = events /\ BookUnchanged) ]_vars

\* a Cancel has just named the id of an order that rests elsewhere in the book
C8_Witness ==
    /\ commands # <<>>
    /\ LET c == commands[Len(commands)] IN
       /\ c.kind = "Cancel"
       /\ c.id \in RestingIds(bids, asks)

\* C9: a New command with qty = 0 appends no event and leaves both sides as
\* they were.
C9_ZeroQtyRejected ==
    [][ (Stepped /\ TopCmd.kind = "New" /\ TopCmd.qty = 0)
        => (events' = events /\ BookUnchanged) ]_vars

\* the positions of the Placed events among the events of a step
PlacedAt == {i \in 1..Len(Appended) : Appended[i].kind = "Placed"}
FillsAt == {i \in 1..Len(Appended) : Appended[i].kind \in {"PartiallyFilled", "Filled"}}
\* the New commands a step pushes (the top-level one, or the inner one of Modify)
NewsPushed ==
    {i \in (Len(commands) + 1)..Len(commands') : commands'[i].kind = "New"}

\* C10: an accepted New (qty > 0) appends exactly one Placed event, carrying
\* the new order's id, side, order_type and price, before every
\* PartiallyFilled/Filled event of its matching; a step that processes no New
\* appends no Placed event.
C10_OnePlacedFirst ==
    [][ Stepped =>
        /\ NewsPushed = {} => PlacedAt = {}
        /\ \A n \in NewsPushed :
             commands'[n].qty > 0 =>
               /\ Cardinality(PlacedAt) = 1
               /\ \A i \in PlacedAt :
                    /\ Appended[i] = [kind |-> "Placed", id |-> next_id,
                                      side |-> commands'[n].side,
                                      order_type |-> commands'[n].order_type,
                                      price |-> commands'[n].price]
                    /\ \A j \in FillsAt : i < j ]_vars

\* a New has just been matched over two match steps (one recursive place_order)
C10_Witness ==
    /\ commands # <<>>
    /\ Len(events) >= 5
    /\ LET c == commands[Len(commands)]
           n == Len(events)
       IN  /\ c.kind = "New"
           /\ events[n - 4].kind = "Placed"
           /\ events[n - 4].id = next_id - 1
           /\ events[n - 3].kind = "PartiallyFilled"
           /\ events[n - 3].id = next_id - 1
           /\ events[n].kind = "Filled"
           /\ events[n].id = next_id - 1


\* the orders resting on either side before the step
RestingBefore ==
    {(OrdersOf(bids) \o OrdersOf(asks))[i] :
        i \in 1..Len(OrdersOf(bids) \o OrdersOf(asks))}
\* the order of that id as it rested before the step
RestingOrder(id) == CHOOSE o \in RestingBefore : o.id = id

\* The events of a top-level New are Placed and then one pair per match step;
\* the other event of the pair of Appended[i]
Partner(i) == IF i % 2 = 0 THEN i + 1 ELSE i - 1
\* the id of the resting order of the match step of Appended[i]
RestingIdOfPair(i) ==
    IF Appended[i].id # next_id THEN Appended[i].id ELSE Appended[Partner(i)].id

\* C11: every PartiallyFilled and Filled event of a match step carries the price
\* of the resting order that was matched, for the incoming order's event and
\* for the resting order's event.
C11_TradeAtRestingPrice ==
    [][ (Stepped /\ TopCmd.kind = "New")
        => \A i \in FillsAt :
             Appended[i].price = RestingOrder(RestingIdOfPair(i)).price ]_vars


\* the Placed event of that id in the log
PlacedEvent(id) ==
    events[CHOOSE k \in 1..Len(events) :
               events[k].kind = "Placed" /\ events[k].id = id]

\* C12: time priority within a price: of two orders resting in one level, the
\* one placed earlier (smaller id) is Filled before the later one receives any
\* fill event.
C12_TimePriority ==
    [][ Stepped =>
        \A x \in RestingBefore, y \in RestingBefore :
          (x.side = y.side /\ x.price = y.price /\ x.id < y.id) =>
            \A j \in FillsAt :
              Appended[j].id = y.id =>
                \E i \in FillsAt :
                  /\ i < j
                  /\ Appended[i].kind = "Filled"
                  /\ Appended[i].id = x.id ]_vars

\* one New has just filled two orders that rested in the same level
C12_Witness ==
    /\ Len(events) >= 7
    /\ LET n == Len(events) IN
       /\ events[n - 2].kind = "Filled"
       /\ events[n - 1].kind = "Filled"
       /\ events[n - 2].id < events[n - 1].id
       /\ events[n - 1].id < events[n].id
       /\ PlacedEvent(events[n - 2].id).side = PlacedEvent(events[n - 1].id).side
       /\ PlacedEvent(events[n - 2].id).price = PlacedEvent(events[n - 1].id).price


\* price p is strictly better than price q for an order resting on that side
Better(side, p, q) == IF side = "Sell" THEN p < q ELSE p > q

\* C13: price priority: a resting order receives a fill event only after every
\* order resting on its side at a strictly better price (lower ask, higher bid)
\* has been Filled.
C13_PricePriority ==
    [][ Stepped =>
        \A x \in RestingBefore, y \in RestingBefore :
          (x.side = y.side /\ Better(x.side, x.price, y.price)) =>
            \A j \in FillsAt :
              Appended[j].id = y.id =>
                \E i \in FillsAt :
                  /\ i < j
                  /\ Appended[i].kind = "Filled"
                  /\ Appended[i].id = x.id ]_vars

\* one New has just filled two orders that rested at different prices of a side
C13_Witness ==
    /\ Len(events) >= 7
    /\ LET n == Len(events) IN
       /\ events[n - 2].kind = "Filled"
       /\ events[n - 1].kind = "Filled"
       /\ events[n - 2].id # events[n - 1].id
       /\ events[n - 1].id < events[n].id
       /\ events[n - 2].id < events[n].id
       /\ PlacedEvent(events[n - 2].id).side = PlacedEvent(events[n - 1].id).side
       /\ PlacedEvent(events[n - 2].id).price # PlacedEvent(events[n - 1].id).price


\* an order of that side and price would cross an order resting after the step
CrossesAfter(side, price) ==
    \E p \in RestingPrices(OppSideAfter(side)) :
        IF side = "Buy" THEN price >= p ELSE price <= p

\* C14: an incoming GoodTilCancel order larger than the front opposing order it
\* crosses pops that order (PartiallyFilled for the incoming order with the
\* popped order's remaining_qty, then Filled for the popped order); when the
\* matching ends with no crossable opposing order left, the remainder rests at
\* the back of its price on its own side with remaining_qty = qty - matched.
C14_RemainderRests ==
    [][ (/\ Stepped
         /\ TopCmd.kind = "New"
         /\ TopCmd.order_type = "GoodTilCancel"
         /\ Crosses(TopCmd.side, TopCmd.price)
         /\ TopCmd.qty >
              OrdersAt(OppSide(TopCmd.side), BestOppPrice(TopCmd.side))[1].remaining_qty)
        => LET front == OrdersAt(OppSide(TopCmd.side), BestOppPrice(TopCmd.side))[1]
               matched == ledger'[next_id].executed
           IN  /\ Len(Appended) >= 3
               /\ Appended[2].kind = "PartiallyFilled"
               /\ Appended[2].id = next_id
               /\ Appended[2].qty = front.remaining_qty
               /\ Appended[3].kind = "Filled"
               /\ Appended[3].id = front.id
               /\ front.id \notin RestingIds(bids', asks')
               /\ (~CrossesAfter(TopCmd.side, TopCmd.price) /\ matched < TopCmd.qty)
                    => OrdersAt(OwnSideAfter(TopCmd.side), TopCmd.price)
                         = Append(OrdersAt(OwnSide(TopCmd.side), TopCmd.price),
                                  [OrderNew(next_id, TopCmd.order_type, TopCmd.side,
                                            TopCmd.price, TopCmd.qty)
                                     EXCEPT !.remaining_qty = TopCmd.qty - matched])
      ]_vars


\* C15: a Modify whose id does not rest at the given side and price appends no
\* event and leaves every resting order of both sides unchanged.
C15_ModifyMissIsNoOp ==
    [][ (/\ Stepped
         /\ TopCmd.kind = "Modify"
         /\ \A i \in 1..Len(OrdersAt(OwnSide(TopCmd.side), TopCmd.price)) :
               OrdersAt(OwnSide(TopCmd.side), TopCmd.price)[i].id # TopCmd.id)
        => (events' = events /\ BookUnchanged) ]_vars

\* a Modify has just named the id of an order that rests elsewhere in the book
C15_Witness ==
    /\ commands # <<>>
    /\ LET c == commands[Len(commands)] IN
       /\ c.kind = "Modify"
       /\ c.id \in RestingIds(bids, asks)
       /\ Len(OrdersOf(bids) \o OrdersOf(asks)) >= 2


\* C16: a Modify whose id rests at the given side and price is a Cancel followed
\* by a New: the log gains Canceled{id}, then Placed for a fresh order of the
\* same side with the command's price and order_type, then only fill events;
\* the old id is out of the book and the replacement, if it rests, is the last
\* order of its level.
C16_ModifyIsCancelThenNew ==
    [][ (/\ Stepped
         /\ TopCmd.kind = "Modify"
         /\ \E i \in 1..Len(OrdersAt(OwnSide(TopCmd.side), TopCmd.price)) :
               OrdersAt(OwnSide(TopCmd.side), TopCmd.price)[i].id = TopCmd.id)
        => /\ commands' = commands \o
                << TopCmd,
                   CancelCmd(TopCmd.id, TopCmd.side, TopCmd.price),
                   NewCmd(TopCmd.order_type, TopCmd.side, TopCmd.price, TopCmd.qty) >>
           /\ Len(Appended) >= 2
           /\ Appended[1] = [kind |-> "Canceled", id |-> TopCmd.id]
           /\ Appended[2] = [kind |-> "Placed", id |-> next_id, side |-> TopCmd.side,
                             order_type |-> TopCmd.order_type, price |-> TopCmd.price]
           /\ \A i \in 3..Len(Appended) :
                 Appended[i].kind \in {"PartiallyFilled", "Filled"}
           /\ TopCmd.id \notin RestingIds(bids', asks')
           /\ next_id \in RestingIds(bids', asks')
                => LET after == OrdersAt(OwnSideAfter(TopCmd.side), TopCmd.price) IN
                   /\ after # <<>>
                   /\ after[Len(after)].id = next_id ]_vars

\* a Modify has just replaced an order that rested ahead of another one: the
\* replacement now rests behind that one
C16_Witness ==
    /\ Len(commands) >= 3
    /\ LET c == commands[Len(commands) - 2]
           after == OrdersAt(OwnSide(c.side), c.price)
       IN  /\ c.kind = "Modify"
           /\ Len(after) >= 2
           /\ after[Len(after)].id = next_id - 1
           /\ after[Len(after) - 1].id > c.id


\* the total remaining_qty of a sequence of orders
RECURSIVE TotalRemaining(_)
TotalRemaining(orders) ==
    IF orders = <<>> THEN 0
    ELSE Head(orders).remaining_qty + TotalRemaining(Tail(orders))

\* C17: when every order resting on the opposing side is crossable by an
\* incoming New, their total remaining quantity equals its qty and its own side
\* holds no order, both sides are empty after the command: no level remains.
C17_ExactMatchEmptiesBook ==
    [][ (/\ Stepped
         /\ TopCmd.kind = "New"
         /\ TopCmd.qty > 0
         /\ RestingPrices(OppSide(TopCmd.side)) # {}
         /\ \A p \in RestingPrices(OppSide(TopCmd.side)) :
               IF TopCmd.side = "Buy" THEN TopCmd.price >= p ELSE TopCmd.price <= p
         /\ TotalRemaining(OrdersOf(OppSide(TopCmd.side))) = TopCmd.qty
         /\ RestingPrices(OwnSide(TopCmd.side)) = {})
        => (bids' = <<>> /\ asks' = <<>>) ]_vars


(* ------------------ behaviour with signed prices (i32) ------------------ *)
\* a top-level command of the signed-price behaviours is accepted while
\* OrderBook.commands holds fewer entries than this
MaxSignedCmds == 2

\* price is an i32: the prices above and one negative price
SignedPrices == {-1} \cup Prices

\* process_command(OrderCommand::New{..}) with any i32 price
NewSigned ==
    /\ Len(commands) + 1 <= MaxSignedCmds
    /\ \E order_type \in OrderTypes, side \in Sides, price \in SignedPrices,
          qty \in Qtys :
          Apply(NewCmd(order_type, side, price, qty))

\* process_command(OrderCommand::Cancel{..}) with any i32 price
CancelSigned ==
    /\ Len(commands) + 1 <= MaxSignedCmds
    /\ \E id \in IssuedIds, side \in Sides, price \in SignedPrices :
          Apply(CancelCmd(id, side, price))

\* process_command(OrderCommand::Modify{..}) with any i32 price
ModifySigned ==
    /\ Len(commands) + 1 <= MaxSignedCmds
    /\ \E id \in IssuedIds, side \in Sides, price \in SignedPrices,
          qty \in Qtys, order_type \in OrderTypes :
          Apply(ModifyCmd(id, side, price, qty, order_type))

NextSigned == NewSigned \/ CancelSigned \/ ModifySigned

SpecSigned == Init /\ [][NextSigned]_vars

\* C18: a New command with a negative price is rejected before any state
\* mutation: it appends no event and leaves both sides unchanged (stated for
\* qty > 0, so that the zero-quantity case of C9 plays no part).
C18_NegativePriceRejected ==
    [][ (Stepped /\ TopCmd.kind = "New" /\ TopCmd.price < 0 /\ TopCmd.qty > 0)
        => (events' = events /\ BookUnchanged) ]_vars


\* C19: every order resting on either side has 0 < remaining_qty <= initial_qty.
C19_RemainingInRange ==
    \A o \in {(OrdersOf(bids) \o OrdersOf(asks))[i] :
                 i \in 1..Len(OrdersOf(bids) \o OrdersOf(asks))} :
        0 < o.remaining_qty /\ o.remaining_qty <= o.initial_qty

\* the remainder of a partly matched order rests: remaining_qty < initial_qty
C19_Witness ==
    \E i \in 1..Len(OrdersOf(bids) \o OrdersOf(asks)) :
        LET o == (OrdersOf(bids) \o OrdersOf(asks))[i] IN
        /\ o.remaining_qty < o.initial_qty
        /\ ledger[o.id].executed = o.initial_qty - o.remaining_qty

\* C20: each side holds at most one level per distinct price.
C20_OneLevelPerPrice ==
    /\ \A i \in 1..Len(bids), j \in 1..Len(bids) :
          i # j => bids[i].price # bids[j].price
    /\ \A i \in 1..Len(asks), j \in 1..Len(asks) :
          i # j => asks[i].price # asks[j].price

\* a side holds two levels, one of them with two orders: an order was appended
\* to the existing level of its price
C20_Witness ==
    \E side \in Sides :
        /\ Len(OwnSide(side)) >= 2
        /\ \E i \in 1..Len(OwnSide(side)) : Len(OwnSide(side)[i].orders) >= 2

\* the positions of the log that hold a terminal event
TerminalAt == {i \in 1..Len(events) : events[i].kind \in {"Filled", "Canceled"}}

\* C21: an order id is terminal after Filled or Canceled: no later event of
\* the log carries the id of a Filled or Canceled event (so the id has at most
\* one terminal event), and no order of that id rests in the book.
C21_TerminalIds ==
    \A i \in TerminalAt :
        /\ \A j \in (i + 1)..Len(events) : events[j].id # events[i].id
        /\ events[i].id \notin RestingIds(bids, asks)

\* the log holds a Filled and a Canceled event that are both followed by
\* events of other orders, while some order still rests
C21_Witness ==
    /\ \E i \in TerminalAt, j \in TerminalAt :
          /\ events[i].kind = "Filled" /\ i < Len(events) - 1
          /\ events[j].kind = "Canceled" /\ j < Len(events)
    /\ RestingIds(bids, asks) # {}

(* ------------- behaviour with quantities up to MaxDeepQty -------------- *)
\* a top-level command of these behaviours is accepted while
\* OrderBook.commands holds fewer entries than this
MaxDeepCmds == 3
\* the largest quantity of a New or Modify command of these behaviours
MaxDeepQty == 3

DeepQtys == 0..MaxDeepQty

\* process_command(OrderCommand::New{..})
NewDeep ==
    /\ Len(commands) + 1 <= MaxDeepCmds
    /\ \E order_type \in OrderTypes, side \in Sides, price \in Prices,
          qty \in DeepQtys :
          Apply(NewCmd(order_type, side, price, qty))

\* process_command(OrderCommand::Cancel{..})
CancelDeep ==
    /\ Len(commands) + 1 <= MaxDeepCmds
    /\ \E id \in IssuedIds, side \in Sides, price \in Prices :
          Apply(CancelCmd(id, side, price))

\* process_command(OrderCommand::Modify{..})
ModifyDeep ==
    /\ Len(commands) + 1 <= MaxDeepCmds
    /\ \E id \in IssuedIds, side \in Sides, price \in Prices,
          qty \in DeepQtys, order_type \in OrderTypes :
          Apply(ModifyCmd(id, side, price, qty, order_type))

NextDeep == NewDeep \/ CancelDeep \/ ModifyDeep

SpecDeep == Init /\ [][NextDeep]_vars

\* OrderBook::place_order, the number of recursive self.place_order(ord) calls
\* below the call place_order(order) on book b: one per MatchStatus::Pending.
RECURSIVE PlaceDepth(_, _)
PlaceDepth(b, order) ==
    IF order.initial_qty = 0 THEN 0
    ELSE
      LET f == find_order_to_match(b, order) IN
      IF f.m # <<>>
      THEN LET order_try_match == f.m[1] IN
           IF CanMatch(order, order_try_match)
           THEN LET r == try_match_order(f.book, order, order_try_match) IN
                IF r.status = "Done" THEN 0
                ELSE 1 + PlaceDepth(r.book,
                           [order EXCEPT !.remaining_qty =
                                order.remaining_qty - order_try_match.remaining_qty])
           ELSE 0
      ELSE 0

\* the distinct prices of the levels of a side, empty levels included
LevelPrices(queue) == {queue[i].price : i \in 1..Len(queue)}

\* the order that the New arm builds for the command of the step, and the
\* book on which it calls place_order
TopOrder ==
    OrderNew(next_id, TopCmd.order_type, TopCmd.side, TopCmd.price, TopCmd.qty)
TopBook ==
    [Book EXCEPT !.commands = Append(@, TopCmd),
                 !.next_id = @ + 1,
                 !.ledger = Append(@, [initial |-> TopCmd.qty, executed |-> 0]),
                 !.events = Append(@, [kind |-> "Placed", id |-> TopOrder.id,
                                       side |-> TopOrder.side,
                                       order_type |-> TopOrder.order_type,
                                       price |-> TopCmd.price])]

\* C22: processing one New command terminates (the chain of place_order calls
\* has a finite depth), and the number of recursive place_order calls it
\* triggers, the initial call not counted, never exceeds the number of
\* distinct opposing price levels present when the command started.
C22_DepthWithinLevels ==
    [][ (Stepped /\ TopCmd.kind = "New")
        => /\ PlaceDepth(TopBook, TopOrder) \in Nat
           /\ PlaceDepth(TopBook, TopOrder)
                 <= Cardinality(LevelPrices(OppSide(TopCmd.side))) ]_vars

====
